---- MODULE Spec2Model ----
(***************************************************************************)
(* Model of src/complex-json.js: the command-line entry, the format check, *)
(* the JSON deep-nesting loop (buildToTargetSize), the YAML document       *)
(* fan-out loop (buildYamlDocuments), the deepest-path scan, the final     *)
(* serialization and the file write.                                       *)
(*                                                                         *)
(* Units.  A size argument is held as the number of bytes it requests,     *)
(* targetSize * 1024 * 1024; TARGET_BYTES is 98/100 of it, and the test    *)
(* currentBytes >= TARGET_BYTES is currentBytes * 100 >= bytes * 98.       *)
(* Strings that only matter by their length are held by what determines    *)
(* that length (the depth index of a PaddedNode, the number of a            *)
(* Document); the format argument is held as its sequence of characters.   *)
(***************************************************************************)
EXTENDS Integers, Sequences, FiniteSets, TLC

VARIABLES
    pc,               \* position in the program
    format,           \* process.argv[2]
    size,             \* process.argv[3], before parseFloat
    heap,             \* live PaddedNode objects, by reference (index)
    root,             \* reference to the root node, 0 before it exists
    current,          \* tail pointer of buildToTargetSize
    depth,            \* depth counter of buildToTargetSize
    lastValidRoot,    \* deep copy saved by buildToTargetSize, <<>> is null
    lastValidDepth,
    documents,        \* documents array of buildYamlDocuments
    docNumber,
    generatedObject,  \* root returned by buildToTargetSize, as a value
    frames,           \* call stack of findDeepestPath, innermost call last
    deepestPath,      \* value returned by the last findDeepestPath call to return
    count,            \* count returned by buildYamlDocuments
    output,           \* the final serialization
    fs,               \* files written by writeFileSync
    console,          \* console.log / warn / error lines, in order
    exitCode          \* process exit status, -1 while running

vars == <<pc, format, size, heap, root, current, depth, lastValidRoot,
          lastValidDepth, documents, docNumber, generatedObject, frames,
          deepestPath, count, output, fs, console, exitCode>>

(***************************************************************************)
(* Bounds of the model and constants of the program.                       *)
(***************************************************************************)
\* The depth cap of line 83 is 100000 and the document cap of line 115 is
\* 1000000; the model runs the same loops with the caps scaled down so that
\* a run can reach them.
DepthLimit == 100
DocLimit == 3
\* Requested sizes: multiples of SmallStep up to MaxSmallSteps of them, and
\* multiples of LargeStep up to MaxLargeSteps of them.
SmallStep == 500
MaxSmallSteps == 34
LargeStep == 12000
MaxLargeSteps == 12

\* 'x'.repeat(1000), line 23
PadLen == 1000
\* Bytes of stringify(doc) apart from the places that print the document
\* number: the keys, the 24-character timestamp, the padding runs of lines
\* 33-44 and the line folds that the yaml package makes at its default
\* width of 80 columns.  Only the order of magnitude matters to the loop.
DocFixedBytes == 3495
\* totalDocs = null, and a document without the totalDocuments field
NullTotal == -1

RECURSIVE Digits(_)
Digits(n) == IF n < 10 THEN 1 ELSE 1 + Digits(n \div 10)

(***************************************************************************)
(* Command line.                                                           *)
(***************************************************************************)
Str(s) == [present |-> TRUE, text |-> s]
NoArg == [present |-> FALSE, text |-> <<>>]

LowerChar(c) ==
    CASE c = "J" -> "j" [] c = "S" -> "s" [] c = "O" -> "o" [] c = "N" -> "n"
      [] c = "Y" -> "y" [] c = "A" -> "a" [] c = "M" -> "m" [] c = "L" -> "l"
      [] c = "X" -> "x"
      [] OTHER -> c

toLowerCase(s) == [i \in 1..Len(s) |-> LowerChar(s[i])]

\* Variant: the comparison without toLowerCase.
IsRecognizedExact(s) ==
    s \in {<<"j", "s", "o", "n">>, <<"y", "a", "m", "l">>}

\* ['json', 'yaml'].includes(format.toLowerCase())
IsRecognized(s) ==
    toLowerCase(s) \in {<<"j", "s", "o", "n">>, <<"y", "a", "m", "l">>}

\* parseFloat(process.argv[3]): NaN for a missing or non-numeric argument
parseFloat(a) ==
    IF a.kind = "num" THEN [nan |-> FALSE, val |-> a.val]
    ELSE [nan |-> TRUE, val |-> 0]

\* !format || !size
ArgsRejected(f, a) ==
    \/ ~f.present
    \/ f.text = <<>>
    \/ parseFloat(a).nan
    \/ parseFloat(a).val = 0

\* targetSize * 1024 * 1024
RequestedBytes == parseFloat(size).val

\* currentBytes >= TARGET_BYTES
OverBudget(currentBytes) == currentBytes * 100 >= RequestedBytes * 98

(***************************************************************************)
(* JSON strategy.                                                          *)
(***************************************************************************)
generateLevelData(d) == [value |-> d, nested |-> 0]

\* `Data at depth ${depth}: ${'x'.repeat(1000)}`
ValueLen(d) == 14 + Digits(d) + 2 + PadLen

\* Following `nested` from a reference for at most n nodes: the values of
\* the nodes met, in order, and the reference the last of them holds (0 is
\* no object).  The walk is split in halves, each half bound once.
RECURSIVE Walk(_, _, _)
Walk(h, ref, n) ==
    IF ref = 0 \/ n = 0 THEN [vals |-> <<>>, next |-> ref]
    ELSE IF n = 1 THEN [vals |-> <<h[ref].value>>, next |-> h[ref].nested]
    ELSE CHOOSE w \in UNION {
             { [vals |-> a.vals \o b.vals, next |-> b.next] :
                 b \in { Walk(h, a.next, n - (n \div 2)) } } :
             a \in { Walk(h, ref, n \div 2) } } : TRUE

\* The object graph reachable from a reference, as a value: the values of
\* the nodes met by following `nested`.  This is what JSON.stringify walks.
ObjectAt(h, ref) == Walk(h, ref, Len(h)).vals

\* JSON.parse(JSON.stringify(root)): a fresh value that shares nothing
deepCopy(h, ref) == ObjectAt(h, ref)

\* Bytes that JSON.stringify(obj, null, 2) prints for the node at position k
\* of the chain, which sits at nesting level k - 1: "{" and a line break,
\* the value member, the key of the nested member when there is one, and
\* the line break and closing brace at the node's own indentation.
NodeBytes(obj, k) ==
    2 + (2 * k + 9 + 2 + ValueLen(obj[k]))
      + (IF k < Len(obj) THEN 2 + 2 * k + 10 ELSE 0)
      + 1 + 2 * (k - 1) + 1

\* The sum of NodeBytes over positions lo..hi, by halving the range.
RECURSIVE SumNodeBytes(_, _, _)
SumNodeBytes(obj, lo, hi) ==
    IF lo > hi THEN 0
    ELSE IF lo = hi THEN NodeBytes(obj, lo)
    ELSE LET mid == (lo + hi) \div 2
         IN  SumNodeBytes(obj, lo, mid) + SumNodeBytes(obj, mid + 1, hi)

\* (the object is bound once, so that it is walked once)
JsonBytes(obj) == CHOOSE b \in { SumNodeBytes(o, 1, Len(o)) : o \in {obj} } : TRUE

\* '.' + deepestPath.join('.')
PathStringLen(path) ==
    1 + (IF Len(path) = 0 THEN 0 ELSE 6 * Len(path) + (Len(path) - 1))

\* JSON.stringify of the root with the deepestPath member added
AnnotatedBytes(obj, path) == JsonBytes(obj) + 2 + 2 + 15 + 2 + PathStringLen(path)

(***************************************************************************)
(* YAML strategy.                                                          *)
(***************************************************************************)
generateDocument(n, totalDocs) ==
    [documentId |-> n,
     totalDocuments |-> IF n = 1 /\ totalDocs # NullTotal THEN totalDocs
                        ELSE NullTotal]

\* Bytes of stringify(doc): the fixed text, ten places that print the
\* document number, and the totalDocuments line when the field is present.
DocBytes(doc) ==
    DocFixedBytes + 10 * Digits(doc.documentId)
      + (IF doc.totalDocuments # NullTotal
         THEN 16 + Digits(doc.totalDocuments) + 1 ELSE 0)

RECURSIVE SumDocBytes(_, _)
SumDocBytes(docs, k) ==
    IF k > Len(docs) THEN 0 ELSE DocBytes(docs[k]) + SumDocBytes(docs, k + 1)

\* documents.map(doc => stringify(doc)).join('---\n')
YamlBytes(docs) ==
    IF Len(docs) = 0 THEN 0 ELSE SumDocBytes(docs, 1) + 4 * (Len(docs) - 1)

(***************************************************************************)
(* Inputs.                                                                 *)
(***************************************************************************)
FormatArgs ==
    { NoArg, Str(<<>>),
      Str(<<"j", "s", "o", "n">>), Str(<<"J", "s", "O", "n">>),
      Str(<<"y", "a", "m", "l">>), Str(<<"Y", "A", "M", "L">>),
      Str(<<"x", "m", "l">>), Str(<<"j", "s", "o", "n", "l">>) }

MinJsonBytes == AnnotatedBytes(<<0>>, <<>>)
MinYamlBytes == YamlBytes(<<generateDocument(1, 1)>>)

\* The smallest requests whose budget lets the loops run into the caps.
JsonCapBytes ==
    (JsonBytes([i \in 1..(DepthLimit + 1) |-> i - 1]) * 100) \div 98 + 1
YamlCapBytes ==
    (YamlBytes([i \in 1..(DocLimit + 1) |-> generateDocument(i, NullTotal)]) * 100)
        \div 98 + 1

SizeValues ==
    { k * SmallStep : k \in -1..MaxSmallSteps }
      \cup { k * LargeStep : k \in 2..MaxLargeSteps }
      \cup { MinJsonBytes - 1, MinJsonBytes, MinYamlBytes - 1, MinYamlBytes }
      \cup { JsonCapBytes - 1, JsonCapBytes, YamlCapBytes - 1, YamlCapBytes }

SizeArgs ==
    { [kind |-> "absent", val |-> 0], [kind |-> "text", val |-> 0] }
      \cup { [kind |-> "num", val |-> v] : v \in SizeValues }

Init ==
    /\ pc = "cli"
    /\ format \in FormatArgs
    /\ size \in SizeArgs
    /\ (~format.present => size.kind = "absent")
    /\ heap = <<>>
    /\ root = 0
    /\ current = 0
    /\ depth = 0
    /\ lastValidRoot = <<>>
    /\ lastValidDepth = 0
    /\ documents = <<>>
    /\ docNumber = 0
    /\ generatedObject = <<>>
    /\ frames = <<>>
    /\ deepestPath = <<>>
    /\ count = 0
    /\ output = [kind |-> "none", bytes |-> 0]
    /\ fs = {}
    /\ console = <<>>
    /\ exitCode = -1

jsonVars == <<heap, root, current, depth, lastValidRoot, lastValidDepth,
              generatedObject, frames, deepestPath>>
yamlVars == <<documents, docNumber, count>>

(***************************************************************************)
(* Command-line entry, lines 204-214.                                      *)
(***************************************************************************)
CliUsage ==
    /\ pc = "cli"
    /\ ArgsRejected(format, size)
    /\ console' = console \o <<"usage", "example">>
    /\ exitCode' = 1
    /\ pc' = "exited"
    /\ UNCHANGED <<format, size, jsonVars, yamlVars, output, fs>>

CliCall ==
    /\ pc = "cli"
    /\ ~ArgsRejected(format, size)
    /\ pc' = "validate"
    /\ UNCHANGED <<format, size, jsonVars, yamlVars, output, fs, console, exitCode>>

(***************************************************************************)
(* generateLargeObject, lines 4-13: the format check.                      *)
(***************************************************************************)
ThrowInvalidFormat ==
    /\ pc = "validate"
    /\ ~IsRecognized(format.text)
    /\ pc' = "thrown"
    /\ exitCode' = 1
    /\ UNCHANGED <<format, size, jsonVars, yamlVars, output, fs, console>>

formatLower == toLowerCase(format.text)

\* lines 13, 149-158 and 59-63
BeginJson ==
    /\ pc = "validate"
    /\ IsRecognized(format.text)
    /\ formatLower = <<"j", "s", "o", "n">>
    /\ console' = Append(console, "generating")
    /\ heap' = <<generateLevelData(0)>>
    /\ root' = 1
    /\ current' = 1
    /\ depth' = 0
    /\ lastValidRoot' = <<>>
    /\ lastValidDepth' = 0
    /\ pc' = "jsonLoop"
    /\ UNCHANGED <<format, size, generatedObject, frames, deepestPath, yamlVars, output,
                   fs, exitCode>>

\* lines 13, 149-156, 167 and 94-95
BeginYaml ==
    /\ pc = "validate"
    /\ IsRecognized(format.text)
    /\ formatLower # <<"j", "s", "o", "n">>
    /\ console' = Append(console, "generating")
    /\ documents' = <<>>
    /\ docNumber' = 0
    /\ pc' = "yamlLoop"
    /\ UNCHANGED <<format, size, jsonVars, count, output, fs, exitCode>>

(***************************************************************************)
(* buildToTargetSize, lines 65-89: one iteration of the loop per step.     *)
(***************************************************************************)
currentBytes == JsonBytes(ObjectAt(heap, root))

\* Variant: the threshold stop returns the live root, not the snapshot.
JsonReturnLive ==
    /\ pc = "jsonLoop"
    /\ OverBudget(currentBytes)
    /\ lastValidRoot # <<>>
    /\ generatedObject' = ObjectAt(heap, root)
    /\ pc' = "jsonBuilt"
    /\ UNCHANGED <<format, size, heap, root, current, depth, lastValidRoot,
                   lastValidDepth, frames, deepestPath, yamlVars, output, fs, console,
                   exitCode>>

\* lines 69-71: over budget with a snapshot
JsonReturnSnapshot ==
    /\ pc = "jsonLoop"
    /\ OverBudget(currentBytes)
    /\ lastValidRoot # <<>>
    /\ generatedObject' = lastValidRoot
    /\ pc' = "jsonBuilt"
    /\ UNCHANGED <<format, size, heap, root, current, depth, lastValidRoot,
                   lastValidDepth, frames, deepestPath, yamlVars, output, fs, console,
                   exitCode>>

\* lines 69, 73 and 89: over budget without a snapshot
JsonBreakOverBudget ==
    /\ pc = "jsonLoop"
    /\ OverBudget(currentBytes)
    /\ lastValidRoot = <<>>
    /\ generatedObject' = ObjectAt(heap, root)
    /\ pc' = "jsonBuilt"
    /\ UNCHANGED <<format, size, heap, root, current, depth, lastValidRoot,
                   lastValidDepth, frames, deepestPath, yamlVars, output, fs, console,
                   exitCode>>

\* Variant: the new node is linked under the tail but the tail pointer stays.
AttachNoAdvance(h, cur, d) ==
    [heap |-> Append([h EXCEPT ![cur].nested = Len(h) + 1], generateLevelData(d)),
     current |-> cur]

\* lines 80-81: current.nested = generateLevelData(depth); current = current.nested
Attach(h, cur, d) ==
    [heap |-> Append([h EXCEPT ![cur].nested = Len(h) + 1], generateLevelData(d)),
     current |-> Len(h) + 1]

\* Variant: the snapshot is saved on the first iteration only.
JsonGrowKeepFirstSnapshot ==
    /\ pc = "jsonLoop"
    /\ ~OverBudget(currentBytes)
    /\ ~(depth + 1 > DepthLimit)
    /\ lastValidRoot' = IF lastValidRoot = <<>> THEN deepCopy(heap, root) ELSE lastValidRoot
    /\ lastValidDepth' = IF lastValidRoot = <<>> THEN depth ELSE lastValidDepth
    /\ depth' = depth + 1
    /\ heap' = Attach(heap, current, depth + 1).heap
    /\ current' = Attach(heap, current, depth + 1).current
    /\ UNCHANGED <<pc, format, size, root, generatedObject, frames, deepestPath, yamlVars,
                   output, fs, console, exitCode>>

\* Variant: lastValidRoot = root, the snapshot shares the live chain and so
\* shows the node attached afterwards.
JsonGrowAliased ==
    /\ pc = "jsonLoop"
    /\ ~OverBudget(currentBytes)
    /\ ~(depth + 1 > DepthLimit)
    /\ lastValidRoot' = ObjectAt(Attach(heap, current, depth + 1).heap, root)
    /\ lastValidDepth' = depth
    /\ depth' = depth + 1
    /\ heap' = Attach(heap, current, depth + 1).heap
    /\ current' = Attach(heap, current, depth + 1).current
    /\ UNCHANGED <<pc, format, size, root, generatedObject, frames, deepestPath, yamlVars,
                   output, fs, console, exitCode>>

\* lines 76-83: under budget, depth stays within the cap
JsonGrow ==
    /\ pc = "jsonLoop"
    /\ ~OverBudget(currentBytes)
    /\ ~(depth + 1 > DepthLimit)
    /\ lastValidRoot' = deepCopy(heap, root)
    /\ lastValidDepth' = depth
    /\ depth' = depth + 1
    /\ heap' = Attach(heap, current, depth + 1).heap
    /\ current' = Attach(heap, current, depth + 1).current
    /\ UNCHANGED <<pc, format, size, root, generatedObject, frames, deepestPath, yamlVars,
                   output, fs, console, exitCode>>

\* Variant: the cap returns the snapshot, as the threshold stop does.
JsonDepthLimitSnapshot ==
    /\ pc = "jsonLoop"
    /\ ~OverBudget(currentBytes)
    /\ depth + 1 > DepthLimit
    /\ lastValidRoot' = deepCopy(heap, root)
    /\ lastValidDepth' = depth
    /\ depth' = depth + 1
    /\ heap' = Attach(heap, current, depth + 1).heap
    /\ current' = Attach(heap, current, depth + 1).current
    /\ console' = Append(console, "warn: maximum depth limit")
    /\ generatedObject' = lastValidRoot'
    /\ pc' = "jsonBuilt"
    /\ UNCHANGED <<format, size, root, frames, deepestPath, yamlVars, output, fs, exitCode>>

\* Variant: the cap test is missing, the loop goes on growing.
JsonNoDepthLimit ==
    /\ pc = "jsonLoop"
    /\ ~OverBudget(currentBytes)
    /\ depth + 1 > DepthLimit
    /\ lastValidRoot' = deepCopy(heap, root)
    /\ lastValidDepth' = depth
    /\ depth' = depth + 1
    /\ heap' = Attach(heap, current, depth + 1).heap
    /\ current' = Attach(heap, current, depth + 1).current
    /\ UNCHANGED <<pc, format, size, root, generatedObject, frames, deepestPath, yamlVars,
                   output, fs, console, exitCode>>

\* lines 76-89: under budget, the cap stops the loop after the growth step
JsonDepthLimit ==
    /\ pc = "jsonLoop"
    /\ ~OverBudget(currentBytes)
    /\ depth + 1 > DepthLimit
    /\ lastValidRoot' = deepCopy(heap, root)
    /\ lastValidDepth' = depth
    /\ depth' = depth + 1
    /\ heap' = Attach(heap, current, depth + 1).heap
    /\ current' = Attach(heap, current, depth + 1).current
    /\ console' = Append(console, "warn: maximum depth limit")
    /\ generatedObject' = ObjectAt(heap', root)
    /\ pc' = "jsonBuilt"
    /\ UNCHANGED <<format, size, root, frames, deepestPath, yamlVars, output, fs, exitCode>>

(***************************************************************************)
(* findDeepestPath, lines 129-146, one call or return per step.  A frame   *)
(* holds the node the call scans (its position in generatedObject) and its *)
(* currentPath.  A node has the entries value, a string that the test of   *)
(* line 134 skips, and nested when it has a child, so a call makes at most *)
(* one recursive call and returns right after that call returns.           *)
(***************************************************************************)
scanRest == <<format, size, heap, root, current, depth, lastValidRoot,
              lastValidDepth, generatedObject, yamlVars, output, fs, console,
              exitCode>>

\* line 159: findDeepestPath(generatedObject), currentPath = []
ScanCall ==
    /\ pc = "jsonBuilt"
    /\ frames' = <<[node |-> 1, currentPath |-> <<>>]>>
    /\ pc' = "scan"
    /\ UNCHANGED <<deepestPath, scanRest>>

top == frames[Len(frames)]

\* Variant: the recursive call is given currentPath, not newPath.
ScanDescendSamePath ==
    /\ pc = "scan"
    /\ top.node < Len(generatedObject)
    /\ frames' = Append(frames, [node |-> top.node + 1,
                                 currentPath |-> top.currentPath])
    /\ UNCHANGED <<pc, deepestPath, scanRest>>

\* lines 133-136: the nested entry is an object, recurse with newPath
ScanDescend ==
    /\ pc = "scan"
    /\ top.node < Len(generatedObject)
    /\ frames' = Append(frames, [node |-> top.node + 1,
                                 currentPath |-> Append(top.currentPath, "nested")])
    /\ UNCHANGED <<pc, deepestPath, scanRest>>

\* lines 130-145: no entry is an object, the call returns its currentPath
ScanReturnLeaf ==
    /\ pc = "scan"
    /\ ~(top.node < Len(generatedObject))
    /\ deepestPath' = top.currentPath
    /\ frames' = SubSeq(frames, 1, Len(frames) - 1)
    /\ pc' = "unwind"
    /\ UNCHANGED scanRest

\* lines 136-145: the recursive call has returned `result` (deepestPath);
\* the caller keeps it when it is longer than its own currentPath, returns
ScanReturn ==
    /\ pc = "unwind"
    /\ frames # <<>>
    /\ deepestPath' = IF Len(deepestPath) > Len(top.currentPath)
                      THEN deepestPath ELSE top.currentPath
    /\ frames' = SubSeq(frames, 1, Len(frames) - 1)
    /\ UNCHANGED <<pc, scanRest>>

\* lines 160-164: annotation and final serialization
JsonAnnotate ==
    /\ pc = "unwind"
    /\ frames = <<>>
    /\ output' = [kind |-> "json",
                  bytes |-> AnnotatedBytes(generatedObject, deepestPath),
                  object |-> generatedObject,
                  deepestPath |-> deepestPath,
                  depth |-> Len(deepestPath)]
    /\ pc' = "save"
    /\ UNCHANGED <<format, size, heap, root, current, depth, lastValidRoot,
                   lastValidDepth, generatedObject, frames, deepestPath,
                   yamlVars, fs, console, exitCode>>

(***************************************************************************)
(* buildYamlDocuments, lines 97-125: one iteration of the loop per step.   *)
(***************************************************************************)
appended == Append(documents, generateDocument(docNumber + 1, NullTotal))

\* lines 98-118: under budget, counter within the cap
YamlAppend ==
    /\ pc = "yamlLoop"
    /\ ~OverBudget(YamlBytes(appended))
    /\ ~(docNumber + 1 > DocLimit)
    /\ docNumber' = docNumber + 1
    /\ documents' = appended
    /\ UNCHANGED <<pc, format, size, jsonVars, count, output, fs, console, exitCode>>

\* Variant: shift() in place of pop(), the first document is removed.
YamlShiftFirst ==
    /\ pc = "yamlLoop"
    /\ OverBudget(YamlBytes(appended))
    /\ Len(appended) > 1
    /\ docNumber' = docNumber + 1
    /\ documents' = SubSeq(appended, 2, Len(appended))
    /\ pc' = "yamlBuilt"
    /\ UNCHANGED <<format, size, jsonVars, count, output, fs, console, exitCode>>

\* lines 98-111: over budget with more than one document, the last is removed
YamlPopLast ==
    /\ pc = "yamlLoop"
    /\ OverBudget(YamlBytes(appended))
    /\ Len(appended) > 1
    /\ docNumber' = docNumber + 1
    /\ documents' = SubSeq(appended, 1, Len(appended) - 1)
    /\ pc' = "yamlBuilt"
    /\ UNCHANGED <<format, size, jsonVars, count, output, fs, console, exitCode>>

\* Variant: the length test is missing, the single document is removed too.
YamlPopSingle ==
    /\ pc = "yamlLoop"
    /\ OverBudget(YamlBytes(appended))
    /\ ~(Len(appended) > 1)
    /\ docNumber' = docNumber + 1
    /\ documents' = SubSeq(appended, 1, Len(appended) - 1)
    /\ pc' = "yamlBuilt"
    /\ UNCHANGED <<format, size, jsonVars, count, output, fs, console, exitCode>>

\* lines 98-111: over budget with a single document, which stays
YamlKeepSingle ==
    /\ pc = "yamlLoop"
    /\ OverBudget(YamlBytes(appended))
    /\ ~(Len(appended) > 1)
    /\ docNumber' = docNumber + 1
    /\ documents' = appended
    /\ pc' = "yamlBuilt"
    /\ UNCHANGED <<format, size, jsonVars, count, output, fs, console, exitCode>>

\* lines 98-118: under budget, the cap stops the loop
YamlDocLimit ==
    /\ pc = "yamlLoop"
    /\ ~OverBudget(YamlBytes(appended))
    /\ docNumber + 1 > DocLimit
    /\ docNumber' = docNumber + 1
    /\ documents' = appended
    /\ console' = Append(console, "warn: maximum document limit")
    /\ pc' = "yamlBuilt"
    /\ UNCHANGED <<format, size, jsonVars, count, output, fs, exitCode>>

\* Variant: document 1 is regenerated with the counter, not the length.
YamlFinalizeWithCounter ==
    /\ pc = "yamlBuilt"
    /\ count' = Len(documents)
    /\ documents' = [documents EXCEPT ![1] = generateDocument(1, docNumber)]
    /\ output' = [kind |-> "yaml",
                  bytes |-> YamlBytes(documents'),
                  docs |-> documents',
                  depth |-> count']
    /\ pc' = "save"
    /\ UNCHANGED <<format, size, jsonVars, docNumber, fs, console, exitCode>>

\* lines 122-125 and 167-173: document 1 is regenerated, then serialization
YamlFinalize ==
    /\ pc = "yamlBuilt"
    /\ count' = Len(documents)
    /\ documents' = [documents EXCEPT ![1] = generateDocument(1, Len(documents))]
    /\ output' = [kind |-> "yaml",
                  bytes |-> YamlBytes(documents'),
                  docs |-> documents',
                  depth |-> count']
    /\ pc' = "save"
    /\ UNCHANGED <<format, size, jsonVars, docNumber, fs, console, exitCode>>

(***************************************************************************)
(* generateLargeObject, lines 177-201: report, file write and return.      *)
(***************************************************************************)
\* `result_${targetSize}MB.${formatLower}`
fileName == [size |-> RequestedBytes, ext |-> formatLower]

\* Variant: the summary is printed and the file is not written.
SaveFileNotWritten ==
    /\ pc = "save"
    /\ console' = console \o <<"generated", "actual size", "summary", "saved">>
    /\ pc' = "returned"
    /\ UNCHANGED <<format, size, jsonVars, yamlVars, output, fs, exitCode>>

SaveFile ==
    /\ pc = "save"
    /\ fs' = { f \in fs : f.name # fileName }
               \cup { [name |-> fileName, bytes |-> output.bytes] }
    /\ console' = console \o <<"generated", "actual size", "summary", "saved">>
    /\ pc' = "returned"
    /\ UNCHANGED <<format, size, jsonVars, yamlVars, output, exitCode>>

\* lines 214-219
CliReport ==
    /\ pc = "returned"
    /\ console' = Append(console, "result")
    /\ exitCode' = 0
    /\ pc' = "done"
    /\ UNCHANGED <<format, size, jsonVars, yamlVars, output, fs>>

Next ==
    \/ CliUsage
    \/ CliCall
    \/ ThrowInvalidFormat
    \/ BeginJson
    \/ BeginYaml
    \/ JsonReturnSnapshot
    \/ JsonBreakOverBudget
    \/ JsonGrow
    \/ JsonDepthLimit
    \/ ScanCall
    \/ ScanDescend
    \/ ScanReturnLeaf
    \/ ScanReturn
    \/ JsonAnnotate
    \/ YamlAppend
    \/ YamlPopLast
    \/ YamlKeepSingle
    \/ YamlDocLimit
    \/ YamlFinalize
    \/ SaveFile
    \/ CliReport

Spec == Init /\ [][Next]_vars

\* The program is one sequential process: a step that can be taken is taken.
FairSpec == Spec /\ WF_vars(Next)

(***************************************************************************)
(* Properties.                                                             *)
(***************************************************************************)
Range(s) == { s[i] : i \in 1..Len(s) }
Finished == pc \in {"save", "returned", "done"}
IsJson == format.present /\ formatLower = <<"j", "s", "o", "n">>
IsYaml == format.present /\ formatLower = <<"y", "a", "m", "l">>

\* C1, as stated: whenever a final serialization exists for a positive
\* requested size, its byte size is at most the requested size in bytes.
C1_SizeWithinRequest ==
    (output.kind # "none" /\ RequestedBytes > 0) => output.bytes <= RequestedBytes

\* The size of the smallest artifact the generator can return for the
\* format: the depth-0 chain with its deepestPath member, or one document
\* that carries totalDocuments.
MinArtifactBytes == IF output.kind = "json" THEN MinJsonBytes ELSE MinYamlBytes

\* C1, amended: whenever the requested size is at least the size of the
\* smallest artifact of the format, the final serialization (JSON text with
\* deepestPath, YAML text with totalDocuments) is at most the requested size.
C1_SizeWithinRequestIfMinimalFits ==
    (output.kind # "none" /\ RequestedBytes >= MinArtifactBytes)
        => output.bytes <= RequestedBytes

C1_Witness ==
    /\ pc = "done"
    /\ output.kind = "json"
    /\ output.depth >= 2
    /\ lastValidRoot # <<>>
    /\ RequestedBytes >= MinJsonBytes
    /\ output.bytes <= RequestedBytes

\* Each loop has left only because its last measurement reached the budget
\* or because its counter passed the cap, and no counter goes past cap + 1.
C2_LoopExitCause ==
    /\ depth <= DepthLimit + 1
    /\ docNumber <= DocLimit + 1
    /\ (pc = "jsonBuilt" =>
            \/ OverBudget(JsonBytes(ObjectAt(heap, root)))
            \/ depth > DepthLimit)
    /\ (pc = "yamlBuilt" =>
            \/ OverBudget(YamlBytes(
                   [i \in 1..docNumber |-> generateDocument(i, NullTotal)]))
            \/ docNumber > DocLimit)

\* C2: a call with a recognized format terminates and returns a result, and
\* each loop ends after finitely many iterations, on an over-budget
\* measurement or at its cap.
C2_Terminates ==
    /\ []C2_LoopExitCause
    /\ (pc = "validate" /\ IsRecognized(format.text)) ~> (pc = "returned")

C2_Witness ==
    /\ pc = "returned"
    /\ depth > 3
    /\ depth <= DepthLimit
    /\ OverBudget(JsonBytes(ObjectAt(heap, root)))

\* A format argument that is "json" or "yaml" up to letter case, stated
\* letter by letter.
SameUpToCase(s, lower, upper) ==
    /\ Len(s) = Len(lower)
    /\ \A i \in 1..Len(lower) : s[i] \in {lower[i], upper[i]}
IsJsonOrYaml(s) ==
    \/ SameUpToCase(s, <<"j", "s", "o", "n">>, <<"J", "S", "O", "N">>)
    \/ SameUpToCase(s, <<"y", "a", "m", "l">>, <<"Y", "A", "M", "L">>)

NoGenerationWork ==
    /\ heap = <<>> /\ root = 0 /\ depth = 0 /\ lastValidRoot = <<>>
    /\ frames = <<>>
    /\ documents = <<>> /\ docNumber = 0
    /\ output.kind = "none"
    /\ fs = {}

\* C3: a format that is neither "json" nor "yaml" up to letter case makes
\* the call fail before any node or document exists, before any loop step
\* and with no file written; a format that is one of the two never fails.
C3_InvalidFormatFailsFirst ==
    /\ (pc = "thrown" => ~IsJsonOrYaml(format.text) /\ NoGenerationWork)
    /\ (~IsJsonOrYaml(format.text) =>
            pc \in {"cli", "exited", "validate", "thrown"} /\ NoGenerationWork)
    /\ (IsJsonOrYaml(format.text) => pc # "thrown")
    /\ (pc \in {"jsonLoop", "jsonBuilt", "scan", "unwind", "yamlLoop",
                "yamlBuilt", "save", "returned", "done"} => IsJsonOrYaml(format.text))

C3_Witness ==
    /\ pc = "thrown"
    /\ format.text = <<"x", "m", "l">>
    /\ size.kind = "num"
    /\ RequestedBytes > 0

\* C4: in the final YAML output document 1, and no other document, carries
\* totalDocuments, and its value is the number of documents of the output.
C4_TotalDocumentsOnFirstOnly ==
    (output.kind = "yaml") =>
        /\ Len(output.docs) >= 1
        /\ output.docs[1].totalDocuments = Len(output.docs)
        /\ \A i \in 2..Len(output.docs) :
               output.docs[i].totalDocuments = NullTotal

C4_Witness ==
    /\ pc = "done"
    /\ output.kind = "yaml"
    /\ docNumber = 3
    /\ Len(output.docs) = 2
    /\ output.docs[1].totalDocuments = 2

\* C5: the final YAML output holds exactly `count` documents, the reported
\* count, and the i-th of them has documentId i.
C5_SequentialDocumentIds ==
    (output.kind = "yaml") =>
        /\ Len(output.docs) = count
        /\ output.depth = count
        /\ \A i \in 1..Len(output.docs) : output.docs[i].documentId = i

C5_Witness ==
    /\ pc = "save"
    /\ output.kind = "yaml"
    /\ count = 3
    /\ docNumber = 4
    /\ "warn: maximum document limit" \notin Range(console)

\* Following the field names of path from the root of obj: the i-th name
\* must be "nested" and the node it is read from, at position i, must have
\* that child; the node reached is then at position Len(path) + 1.
CanFollow(obj, path) ==
    \A i \in 1..Len(path) : path[i] = "nested" /\ i < Len(obj)

\* C6: the number of names in deepestPath is the number of nested hops from
\* the root to the deepest node of the returned chain, it is the reported
\* depth, and following the names from the root ends at a node that has no
\* nested child.
C6_DeepestPathReachesLeaf ==
    (output.kind = "json") =>
        \* the chain of n nodes has n - 1 hops; the node reached, at
        \* position Len(path) + 1, is the last one and has no child
        /\ Len(output.deepestPath) = Len(output.object) - 1
        /\ output.depth = Len(output.object) - 1
        /\ CanFollow(output.object, output.deepestPath)

C6_Witness ==
    /\ pc = "returned"
    /\ output.kind = "json"
    /\ Len(output.deepestPath) = 3
    /\ Len(output.object) = 4

\* The first measurement of each loop, on the depth-0 chain or on document 1
\* alone, is at or over the budget.
MinimalJsonOverBudget == OverBudget(JsonBytes(<<generateLevelData(0).value>>))
MinimalYamlOverBudget == OverBudget(YamlBytes(<<generateDocument(1, NullTotal)>>))

\* C7: when the minimal structure already measures at or over the budget,
\* the call does not fail and returns exactly that structure: the depth-0
\* chain, or the single document, which is not removed.

C7_MinimalStructureReturned ==
    /\ (IsJson /\ MinimalJsonOverBudget /\ ~ArgsRejected(format, size)) =>
            /\ pc \notin {"thrown", "exited"}
            /\ depth = 0
            /\ (pc \in {"jsonBuilt", "scan", "unwind", "save", "returned", "done"} =>
                    generatedObject = <<0>>)
            /\ (Finished => output.object = <<0>> /\ output.depth = 0)
    /\ (IsYaml /\ MinimalYamlOverBudget /\ ~ArgsRejected(format, size)) =>
            /\ pc \notin {"thrown", "exited"}
            /\ (pc \in {"yamlBuilt", "save", "returned", "done"} =>
                    Len(documents) = 1 /\ documents[1].documentId = 1)
            /\ (Finished => Len(output.docs) = 1 /\ count = 1)

C7_Witness ==
    /\ pc = "done"
    /\ IsYaml
    /\ RequestedBytes > 0
    /\ MinimalYamlOverBudget
    /\ Len(output.docs) = 1
    /\ exitCode = 0

\* The warnings of lines 84 and 116 mark a stop at a cap.
DepthWarned == "warn: maximum depth limit" \in Range(console)
DocsWarned == "warn: maximum document limit" \in Range(console)

\* C8: when a cap stops growth there is no error: the structure held at that
\* moment (cap + 1 levels below the root, or cap + 1 documents, nothing
\* rolled back) is returned, and its final serialization is smaller than
\* the requested size.

C8_CapReturnsCurrentStructure ==
    /\ DepthWarned =>
            /\ pc \in {"jsonBuilt", "scan", "unwind", "save", "returned", "done"}
            /\ exitCode # 1
            /\ generatedObject = ObjectAt(heap, root)
            /\ Len(generatedObject) = DepthLimit + 2
            /\ (Finished => /\ output.object = generatedObject
                            /\ output.bytes < RequestedBytes)
    /\ DocsWarned =>
            /\ pc \in {"yamlBuilt", "save", "returned", "done"}
            /\ exitCode # 1
            /\ Len(documents) = DocLimit + 1
            /\ (Finished => /\ Len(output.docs) = DocLimit + 1
                            /\ output.bytes < RequestedBytes)

C8_Witness ==
    /\ pc = "done"
    /\ DepthWarned
    /\ RequestedBytes = JsonCapBytes
    /\ Len(output.object) = DepthLimit + 2
    /\ exitCode = 0

InvalidArgs ==
    \/ ~format.present
    \/ size.kind \in {"absent", "text"}
    \/ (size.kind = "num" /\ size.val <= 0)

\* C10: whenever an argument is missing or invalid (no format, or a size
\* that is absent, non-numeric or not positive) the program prints the usage
\* message, exits with status 1, never calls the generator and writes no file.

C10_InvalidArgsGetUsage ==
    InvalidArgs =>
        /\ pc \in {"cli", "exited"}
        /\ NoGenerationWork
        /\ (pc = "exited" => exitCode = 1 /\ "usage" \in Range(console))

\* The live structure, as JSON.stringify walks it from root.
LiveChain == ObjectAt(heap, root)
AfterJsonLoop == pc \in {"jsonBuilt", "scan", "unwind", "save", "returned", "done"}
AfterYamlLoop == pc \in {"yamlBuilt", "save", "returned", "done"}

\* C11: every saved snapshot measures strictly below the budget; after a
\* threshold stop (the loop left on a measurement at or over the budget, no
\* cap warning) the result is the saved snapshot whenever one exists, and
\* the over-budget live structure is the result only when there is no
\* snapshot, which is only when the depth-0 root alone is at or over budget.
C11_ThresholdStopReturnsSnapshot ==
    /\ (lastValidRoot # <<>> => ~OverBudget(JsonBytes(lastValidRoot)))
    /\ (IsJson /\ AfterJsonLoop /\ ~DepthWarned) =>
            /\ OverBudget(JsonBytes(LiveChain))
            /\ (lastValidRoot # <<>> => generatedObject = lastValidRoot)
            /\ (lastValidRoot = <<>> =>
                    /\ generatedObject = LiveChain
                    /\ depth = 0
                    /\ generatedObject = <<0>>
                    /\ MinimalJsonOverBudget)
            /\ (generatedObject = LiveChain => lastValidRoot = <<>>)

C11_Witness ==
    /\ pc = "jsonBuilt"
    /\ ~DepthWarned
    /\ Len(lastValidRoot) >= 3
    /\ generatedObject = lastValidRoot
    /\ OverBudget(JsonBytes(LiveChain))
    /\ ~OverBudget(JsonBytes(generatedObject))

\* The first n documents as the loop generates them (no total-count field).
Docs(n) == [i \in 1..n |-> generateDocument(i, NullTotal)]
IsPrefix(s, t) == Len(s) <= Len(t) /\ SubSeq(t, 1, Len(s)) = s

\* One iteration of the YAML loop: the document for the next counter value
\* is appended and the joined length is measured afterwards. At or over the
\* budget the loop stops, and the appended document is removed exactly when
\* more than one document exists; below the budget the appended document
\* stays. Documents already held keep their positions.
YamlIterationStep ==
    pc = "yamlLoop" =>
        /\ docNumber' = docNumber + 1
        /\ IsPrefix(documents, documents')
        /\ IF OverBudget(YamlBytes(Append(documents, generateDocument(docNumber + 1, NullTotal))))
             THEN /\ pc' = "yamlBuilt"
                  /\ (Len(documents) + 1 > 1 <=> documents' = documents)
                  /\ (Len(documents) + 1 <= 1 <=>
                        documents' = <<generateDocument(docNumber + 1, NullTotal)>>)
             ELSE /\ documents' = Append(documents, generateDocument(docNumber + 1, NullTotal))
                  /\ pc' \in {"yamlLoop", "yamlBuilt"}

\* What the loop holds at the top of an iteration was measured below the
\* budget on the previous iteration.
YamlHeldBelowBudget ==
    (pc = "yamlLoop" /\ documents # <<>>) =>
        /\ documents = Docs(docNumber)
        /\ ~OverBudget(YamlBytes(documents))

\* C12: the YAML loop measures after each append; on a measurement at or
\* over the budget it stops and removes exactly the just-appended last
\* document if and only if more than one document exists, so with two or
\* more appended documents what remains is the sequence measured below
\* budget on the previous iteration; earlier documents are never removed or
\* reordered.
C12_YamlRollbackOnlyLast == []YamlHeldBelowBudget /\ [][YamlIterationStep]_vars

C12_Witness ==
    /\ pc = "yamlBuilt"
    /\ ~DocsWarned
    /\ Len(documents) >= 2
    /\ docNumber = Len(documents) + 1
    /\ documents = Docs(Len(documents))
    /\ ~OverBudget(YamlBytes(documents))
    /\ OverBudget(YamlBytes(Docs(docNumber)))

\* The chain of d nested levels below a depth-0 root, as the loop builds it.
Chain(d) == [i \in 1..(d + 1) |-> i - 1]
JsonThresholdStopWithSnapshot ==
    IsJson /\ AfterJsonLoop /\ ~DepthWarned /\ lastValidRoot # <<>>
YamlThresholdStopWithRollback ==
    IsYaml /\ AfterYamlLoop /\ ~DocsWarned /\ docNumber = Len(documents) + 1

\* C13: after a threshold stop the result is the closest undershoot in
\* growth units. JSON with a snapshot: the returned chain of depth d measures
\* below the budget and the chain of depth d+1 measures at or over it. YAML
\* with a rollback: the returned n documents measure below the budget and
\* n+1 documents measure at or over it. So nothing smaller is returned while
\* the next larger structure would still be below the budget.
C13_ClosestUndershoot ==
    /\ JsonThresholdStopWithSnapshot =>
            /\ generatedObject = Chain(Len(generatedObject) - 1)
            /\ ~OverBudget(JsonBytes(Chain(Len(generatedObject) - 1)))
            /\ OverBudget(JsonBytes(Chain(Len(generatedObject))))
    /\ YamlThresholdStopWithRollback =>
            /\ Len(documents) >= 1
            /\ \A i \in 1..Len(documents) : documents[i].documentId = i
            /\ ~OverBudget(YamlBytes(Docs(Len(documents))))
            /\ OverBudget(YamlBytes(Docs(Len(documents) + 1)))

C13_Witness ==
    /\ pc = "save"
    /\ JsonThresholdStopWithSnapshot
    /\ Len(generatedObject) = 3
    /\ ~OverBudget(JsonBytes(Chain(2)))
    /\ OverBudget(JsonBytes(Chain(3)))

\* The live structure at the top of an iteration: following `nested` from
\* the root meets depth + 1 nodes, the node at hop k holds depth index k,
\* no node is the child of two nodes, and `current` is the node reached
\* after depth hops and the only node without a child.
LinearChain ==
    pc = "jsonLoop" =>
        /\ root \in DOMAIN heap
        /\ current \in DOMAIN heap
        /\ \A r \in DOMAIN heap : heap[r].nested \in 0..Len(heap)
        /\ \A r1, r2 \in DOMAIN heap :
              (heap[r1].nested # 0 /\ heap[r1].nested = heap[r2].nested) => r1 = r2
        /\ Len(LiveChain) = depth + 1
        /\ \A k \in 0..depth : LiveChain[k + 1] = k
        /\ Walk(heap, root, depth).next = current
        /\ \A r \in DOMAIN heap : heap[r].nested = 0 <=> r = current

\* One iteration either leaves the structure as it is (a stop) or attaches
\* one new node, with depth index depth + 1, under the tail, which becomes
\* the new tail; every other node and every value stays.
GrowthStepAttachesOne ==
    pc = "jsonLoop" =>
        \/ UNCHANGED <<heap, root, current, depth>>
        \/ /\ depth' = depth + 1
           /\ root' = root
           /\ Len(heap') = Len(heap) + 1
           /\ current' \in DOMAIN heap' \ DOMAIN heap
           /\ heap'[current'] = [value |-> depth + 1, nested |-> 0]
           /\ heap[current].nested = 0
           /\ heap'[current] = [heap[current] EXCEPT !.nested = current']
           /\ \A r \in DOMAIN heap \ {current} : heap'[r] = heap[r]
           /\ ObjectAt(heap', root') = Append(LiveChain, depth + 1)

\* C14: at every iteration of the JSON loop the live structure is a linear
\* chain: at most one `nested` per node, exactly `depth` hops from the root,
\* `current` the unique node without a `nested` child, the node at hop k
\* carrying depth index k; a growth step changes the chain only by attaching
\* one new node at depth + 1 under the tail.
C14_LiveStructureIsChain == []LinearChain /\ [][GrowthStepAttachesOne]_vars

C14_Witness ==
    /\ pc = "jsonLoop"
    /\ depth = 3
    /\ LiveChain = <<0, 1, 2, 3>>
    /\ Walk(heap, root, 3).next = current
    /\ heap[current] = [value |-> 3, nested |-> 0]

\* A saved snapshot has lastValidDepth hops, one fewer than the live chain,
\* and is the live chain without its last node.
SnapshotOneLevelBehind ==
    (lastValidRoot # <<>> /\ pc \notin {"cli", "validate"}) =>
        /\ Len(lastValidRoot) = lastValidDepth + 1
        /\ lastValidRoot = Chain(lastValidDepth)
        /\ lastValidDepth = depth - 1
        /\ lastValidRoot = SubSeq(LiveChain, 1, Len(LiveChain) - 1)
        /\ (AfterJsonLoop /\ ~DepthWarned) =>
                /\ generatedObject = lastValidRoot
                /\ Len(generatedObject) = Len(LiveChain) - 1

\* The growth step that follows a save leaves the saved value as it was
\* taken, the structure before the new node; no other step changes it.
SnapshotKeptByGrowth ==
    IF pc = "jsonLoop" /\ heap' # heap
      THEN /\ lastValidRoot' = LiveChain
           /\ lastValidDepth' = depth
           /\ ObjectAt(heap', root') # lastValidRoot'
      ELSE pc # "validate" => UNCHANGED <<lastValidRoot, lastValidDepth>>

\* C15: the saved snapshot is independent of the live chain: the growth
\* step after a save leaves it unchanged, so a snapshot always has exactly
\* lastValidDepth nested hops, lastValidDepth = depth - 1 after the growth
\* step, and the snapshot returned on a threshold stop has one level fewer
\* than the live chain that measured over budget.
C15_SnapshotIndependent == []SnapshotOneLevelBehind /\ [][SnapshotKeptByGrowth]_vars

C15_Witness ==
    /\ pc = "jsonBuilt"
    /\ ~DepthWarned
    /\ lastValidDepth = 2
    /\ depth = 3
    /\ generatedObject = <<0, 1, 2>>
    /\ LiveChain = <<0, 1, 2, 3>>

====
